---- MODULE Spec2Model ----
(***************************************************************************)
(* Model of the interactive cube viewer of src/main.py: the OpenGLWidget   *)
(* camera (orbit angles, zoom, pan offset, drag anchor), its Qt event      *)
(* handlers and its render pass.                                           *)
(*                                                                         *)
(* Number representation.  The program computes in Python floats; the      *)
(* model computes in exact fixed point:                                    *)
(*   - pointer positions are <<x, y>> in whole pixels;                     *)
(*   - theta and phi are kept in HALF DEGREES (theta = 90 means 45.0       *)
(*     degrees), so that delta * 0.5 of line 147-148 is exact;             *)
(*   - zoom is kept in HUNDREDTHS (zoom = 500 means 5.0), so that          *)
(*     delta * 0.01 of line 180 is exact;                                  *)
(*   - sines and cosines are integers scaled by TrigScale;                 *)
(*   - pan_offset and the eye/target of a frame are in units of            *)
(*     1 / (100 * TrigScale).                                              *)
(***************************************************************************)
EXTENDS Integers, Sequences, FiniteSets

VARIABLES
    last_mouse_pos,   \* self.last_mouse_pos: None or Some(<<x, y>>)
    theta,            \* self.theta, half degrees
    phi,              \* self.phi, half degrees
    zoom,             \* self.zoom, hundredths
    pan_offset,       \* self.pan_offset, <<x, y, z>>
    hovered_face,     \* self.hovered_face: None or Some(face index)
    frustum,          \* projection set by resizeGL: [right, top, near, far]
    frame,            \* the last frame emitted by paintGL, None before the first
    update_pending,   \* a repaint requested by self.update() and not yet painted
    buttons,          \* the mouse buttons currently held (Qt's event.buttons())
    ev,               \* the event most recently delivered to the widget
    nevents           \* number of events delivered so far

vars == <<last_mouse_pos, theta, phi, zoom, pan_offset, hovered_face, frustum,
          frame, update_pending, buttons, ev, nevents>>

camera == <<theta, phi, zoom, pan_offset>>

\* Optional values (Python's Optional[...]): None is the empty set and a
\* present value v is the singleton {v}.
None == {}

Some(v) == {v}

Get(o) == CHOOSE v \in o : TRUE

(***************************************************************************)
(* Bounds of the model and the inputs the host toolkit may deliver.        *)
(***************************************************************************)
MaxEvents == 5

Pos == {<<0, 0>>, <<10, 0>>, <<10, 100>>, <<4, 7>>, <<-30, -300>>}

Buttons == {"Left", "Right", "Middle"}

WheelDeltas == {-100, 10000, -2000}

Widths == {0, 800}

Heights == {0, 600}

(***************************************************************************)
(* Fixed-point trigonometry (np.sin, np.cos, np.radians).                  *)
(***************************************************************************)
TrigScale == 10000

\* sin of h half degrees, 0 <= h <= 180, by its Taylor series in radians
SinQuadrant(h) ==
    LET x  == (h * 31416) \div 360
        x2 == (x * x) \div TrigScale
        t3 == (x * x2) \div (TrigScale * 6)
        t5 == (t3 * x2) \div (TrigScale * 20)
        t7 == (t5 * x2) \div (TrigScale * 42)
        t9 == (t7 * x2) \div (TrigScale * 72)
    IN  x - t3 + t5 - t7 + t9

\* np.sin(np.radians(a)) for an angle of h half degrees
Sin(h) ==
    LET n == h % 720
    IN  IF n <= 180 THEN SinQuadrant(n)
        ELSE IF n <= 360 THEN SinQuadrant(360 - n)
        ELSE IF n <= 540 THEN -SinQuadrant(n - 360)
        ELSE -SinQuadrant(720 - n)

\* np.cos(np.radians(a)) for an angle of h half degrees
Cos(h) == Sin(h + 180)

\* np.cross(a, b)
Cross(a, b) ==
    << (a[2] * b[3] - a[3] * b[2]) \div TrigScale,
       (a[3] * b[1] - a[1] * b[3]) \div TrigScale,
       (a[1] * b[2] - a[2] * b[1]) \div TrigScale >>

VecAdd(a, b) == << a[1] + b[1], a[2] + b[2], a[3] + b[3] >>

VecScale(a, k) == << a[1] * k, a[2] * k, a[3] * k >>

(***************************************************************************)
(* Helpers of the handlers.                                                *)
(***************************************************************************)
Max(a, b) == IF a >= b THEN a ELSE b

Min(a, b) == IF a <= b THEN a ELSE b

\* bool(self.last_mouse_pos): None is falsy, and PySide6 converts a QPointF
\* to bool through QPointF.isNull(), so the point (0, 0) is falsy as well.
Truthy(p) == p # None /\ p # Some(<<0, 0>>)

\* ClampPhi without the lower limit
ClampPhi_NoLower(x) == Min(358, x)

\* max(1.0, min(179.0, phi)), in half degrees
ClampPhi(x) == Max(2, Min(358, x))

\* ClampZoom without the lower limit
ClampZoom_NoLower(x) == Min(2000, x)

\* max(2.0, min(20.0, zoom)), in hundredths
ClampZoom(x) == Max(200, Min(2000, x))

\* theta -= delta.x() * 0.5
OrbitTheta(t, dx) == t - dx

\* phi -= delta.y() * 0.5, then the clamp
OrbitPhi(p, dy) == ClampPhi(p - dy)

\* forward vector of the pan basis
Forward(t, p) ==
    << -((Sin(p) * Cos(t)) \div TrigScale),
       -((Sin(p) * Sin(t)) \div TrigScale),
       Cos(p) >>

\* right vector of the pan basis
Right(t) == << Sin(t), -Cos(t), 0 >>

\* Pan with a basis computed once, at the initial angles, not per event
Pan_FixedBasis(pan, t, p, dx, dy) ==
    LET right == Right(90)
        up    == Cross(right, Forward(90, 90))
    IN  VecAdd(VecAdd(pan, VecScale(right, dx)), VecScale(up, -dy))

\* the pan branch: pan_offset += right * dx * 0.01; pan_offset += up * -dy * 0.01
Pan(pan, t, p, dx, dy) ==
    LET right == Right(t)
        up    == Cross(right, Forward(t, p))
    IN  VecAdd(VecAdd(pan, VecScale(right, dx)), VecScale(up, -dy))

\* AspectRatio falling back to 0.0 instead of 1.0
AspectRatio_ZeroFallback(w, h) == IF h # 0 THEN (w * 1000) \div h ELSE 0

\* w / h if h != 0 else 1.0, in thousandths
AspectRatio(w, h) == IF h # 0 THEN (w * 1000) \div h ELSE 1000

\* the unit eye offset of paintGL: eye_x, eye_y, eye_z without the factor zoom
EyeDir(t, p) ==
    << (Sin(p) * Cos(t)) \div TrigScale,
       (Sin(p) * Sin(t)) \div TrigScale,
       Cos(p) >>

\* the eye offset computed by paintGL
EyeOffset(t, p, z) == VecScale(EyeDir(t, p), z)

\* FaceAlpha with the two branches exchanged
FaceAlpha_Swapped(hf, i) == IF hf = Some(i) THEN 100 ELSE 50

\* alpha of face i in draw_cube, in percent
FaceAlpha(hf, i) == IF hf = Some(i) THEN 50 ELSE 100

\* draw_axes: the glVertex3f calls, in order, each with the current color
draw_axes ==
    << [color |-> <<1, 0, 0>>, vertex |-> <<-2, 0, 0>>],
       [color |-> <<1, 0, 0>>, vertex |-> <<2, 0, 0>>],
       [color |-> <<0, 1, 0>>, vertex |-> <<0, -2, 0>>],
       [color |-> <<0, 1, 0>>, vertex |-> <<0, 2, 0>>],
       [color |-> <<0, 0, 1>>, vertex |-> <<0, 0, -2>>],
       [color |-> <<0, 0, 1>>, vertex |-> <<0, 0, 2>>] >>

\* the four glVertex3f calls of one iteration i of the loop of draw_grid
GridLines(i, size, step) ==
    << << i * step, 0, -size * step >>,
       << i * step, 0, size * step >>,
       << -size * step, 0, i * step >>,
       << size * step, 0, i * step >> >>

\* draw_grid(size, step): the line endpoints emitted, in order
draw_grid(size, step) ==
    [ k \in 1..(4 * (2 * size + 1)) |->
        GridLines(-size + ((k - 1) \div 4), size, step)[((k - 1) % 4) + 1] ]

\* the vertex table of draw_cube (indices 0..23 of the source are 1..24 here)
vertices ==
    << <<-1, -1,  1>>, << 1, -1,  1>>, << 1,  1,  1>>, <<-1,  1,  1>>,
       <<-1, -1, -1>>, <<-1,  1, -1>>, << 1,  1, -1>>, << 1, -1, -1>>,
       <<-1, -1, -1>>, <<-1, -1,  1>>, <<-1,  1,  1>>, <<-1,  1, -1>>,
       << 1, -1, -1>>, << 1,  1, -1>>, << 1,  1,  1>>, << 1, -1,  1>>,
       <<-1,  1, -1>>, <<-1,  1,  1>>, << 1,  1,  1>>, << 1,  1, -1>>,
       <<-1, -1, -1>>, << 1, -1,  1>>, << 1, -1, -1>>, <<-1, -1,  1>> >>

\* the index lists of the six faces (0-based vertex indices, as in the source)
faces ==
    << <<0, 1, 2, 3>>, <<4, 5, 6, 7>>, <<8, 9, 10, 11>>,
       <<12, 13, 14, 15>>, <<16, 17, 18, 19>>, <<20, 21, 22, 23>> >>

face_colors ==
    << <<1, 0, 0>>, <<0, 1, 0>>, <<0, 0, 1>>,
       <<1, 1, 0>>, <<1, 0, 1>>, <<0, 1, 1>> >>

\* draw_cube: per face i its color and the four glVertex3f calls, in order
draw_cube ==
    [ i \in 0..5 |->
        [ color |-> face_colors[i + 1],
          quad  |-> [k \in 1..4 |-> vertices[faces[i + 1][k] + 1]] ] ]

\* what paintGL hands to gluLookAt and what the draw helpers emit
Render(t, p, z, pan, hf) ==
    [ eye    |-> VecAdd(EyeOffset(t, p, z), pan),
      target |-> pan,
      up     |-> <<0, 0, 1>>,
      axes   |-> draw_axes,
      grid   |-> draw_grid(10, 1),
      cube   |-> draw_cube,
      alpha  |-> [i \in 0..5 |-> FaceAlpha(hf, i)] ]

(***************************************************************************)
(* The handlers as functions of the widget state.                          *)
(***************************************************************************)
self == [ last_mouse_pos |-> last_mouse_pos, theta |-> theta, phi |-> phi,
          zoom |-> zoom, pan_offset |-> pan_offset, update |-> FALSE ]

\* dragFrom whose pan branch also applies the orbit update
dragFrom_PanOrbits(s, a, pos, btns) ==
    LET dx == pos[1] - a[1]
        dy == pos[2] - a[2]
        orbited == [s EXCEPT !.theta = OrbitTheta(s.theta, dx),
                             !.phi   = OrbitPhi(s.phi, dy)]
        moved ==
          IF btns = {"Left"}
          THEN orbited
          ELSE IF btns = {"Right"}
          THEN [orbited EXCEPT !.pan_offset =
                            Pan(s.pan_offset, s.theta, s.phi, dx, dy)]
          ELSE s
    IN  [moved EXCEPT !.last_mouse_pos = Some(pos), !.update = TRUE]

\* the body of mouseMoveEvent under "if self.last_mouse_pos:", with the
\* anchor a; the field update tells whether self.update() was called
dragFrom(s, a, pos, btns) ==
    LET dx == pos[1] - a[1]
        dy == pos[2] - a[2]
        moved ==
          IF btns = {"Left"}
          THEN [s EXCEPT !.theta = OrbitTheta(s.theta, dx),
                         !.phi   = OrbitPhi(s.phi, dy)]
          ELSE IF btns = {"Right"}
          THEN [s EXCEPT !.pan_offset =
                            Pan(s.pan_offset, s.theta, s.phi, dx, dy)]
          ELSE s
    IN  [moved EXCEPT !.last_mouse_pos = Some(pos), !.update = TRUE]

\* mouseMoveEvent that takes a missing anchor for the origin
mouseMoveEvent_NoGuard(s, pos, btns) ==
    dragFrom(s, IF s.last_mouse_pos = None THEN <<0, 0>>
                ELSE Get(s.last_mouse_pos), pos, btns)

\* mouseMoveEvent with event.position() = pos and event.buttons() = btns
mouseMoveEvent(s, pos, btns) ==
    IF Truthy(s.last_mouse_pos)
    THEN dragFrom(s, Get(s.last_mouse_pos), pos, btns)
    ELSE s

\* wheelEvent adding the wheel delta instead of subtracting it
wheelEvent_Plus(s, delta) ==
    [s EXCEPT !.zoom = ClampZoom(s.zoom + delta), !.update = TRUE]

\* wheelEvent without the call of self.update()
wheelEvent_NoUpdate(s, delta) ==
    [s EXCEPT !.zoom = ClampZoom(s.zoom - delta)]

\* wheelEvent with event.angleDelta().y() = delta
wheelEvent(s, delta) ==
    [s EXCEPT !.zoom = ClampZoom(s.zoom - delta), !.update = TRUE]

\* mouseReleaseEvent: the anchor after a release
mouseReleaseEvent_KeepAnchor(s) == s.last_mouse_pos

mouseReleaseEvent(s) == None

Event(type, pos, btns, delta, size) ==
    [type |-> type, pos |-> pos, buttons |-> btns, delta |-> delta, size |-> size]

(***************************************************************************)
(* Initial state: OpenGLWidget.__init__, then the window is shown.         *)
(***************************************************************************)
Init ==
    /\ last_mouse_pos = None
    /\ theta = 90
    /\ phi = 90
    /\ zoom = 500
    /\ pan_offset = <<0, 0, 0>>
    /\ hovered_face = None
    /\ frustum = None
    /\ frame = None
    /\ update_pending = TRUE
    /\ buttons = {}
    /\ ev = Event("init", None, {}, 0, None)
    /\ nevents = 0

(***************************************************************************)
(* Actions: one per handler.                                               *)
(***************************************************************************)
MousePress(b, p) ==
    /\ nevents < MaxEvents
    /\ b \notin buttons
    /\ buttons' = buttons \cup {b}
    /\ last_mouse_pos' = Some(p)
    /\ ev' = Event("press", Some(p), buttons', 0, None)
    /\ nevents' = nevents + 1
    /\ UNCHANGED <<theta, phi, zoom, pan_offset, hovered_face, frustum, frame,
                   update_pending>>

MouseMove(p) ==
    /\ nevents < MaxEvents
    /\ LET r == mouseMoveEvent(self, p, buttons)
       IN  /\ last_mouse_pos' = r.last_mouse_pos
           /\ theta' = r.theta
           /\ phi' = r.phi
           /\ pan_offset' = r.pan_offset
           /\ update_pending' = (update_pending \/ r.update)
    /\ ev' = Event("move", Some(p), buttons, 0, None)
    /\ nevents' = nevents + 1
    /\ UNCHANGED <<zoom, hovered_face, frustum, frame, buttons>>

MouseRelease(b, p) ==
    /\ nevents < MaxEvents
    /\ b \in buttons
    /\ buttons' = buttons \ {b}
    /\ last_mouse_pos' = mouseReleaseEvent(self)
    /\ ev' = Event("release", Some(p), buttons', 0, None)
    /\ nevents' = nevents + 1
    /\ UNCHANGED <<theta, phi, zoom, pan_offset, hovered_face, frustum, frame,
                   update_pending>>

Wheel(d) ==
    /\ nevents < MaxEvents
    /\ LET r == wheelEvent(self, d)
       IN  /\ zoom' = r.zoom
           /\ update_pending' = (update_pending \/ r.update)
    /\ ev' = Event("wheel", None, buttons, d, None)
    /\ nevents' = nevents + 1
    /\ UNCHANGED <<last_mouse_pos, theta, phi, pan_offset, hovered_face, frustum,
                   frame, buttons>>

Resize(w, h) ==
    /\ nevents < MaxEvents
    /\ frustum' = Some([right |-> AspectRatio(w, h), top |-> 1000,
                        near |-> 1000, far |-> 50000])
    /\ ev' = Event("resize", None, buttons, 0, Some(<<w, h>>))
    /\ nevents' = nevents + 1
    /\ UNCHANGED <<last_mouse_pos, theta, phi, zoom, pan_offset, hovered_face,
                   frame, update_pending, buttons>>

\* paintGL building the target in place: target = self.pan_offset; target += eye
Paint_TargetAliased ==
    /\ nevents < MaxEvents
    /\ frame' = Some(Render(theta, phi, zoom, pan_offset, hovered_face))
    /\ pan_offset' = VecAdd(pan_offset, EyeOffset(theta, phi, zoom))
    /\ update_pending' = FALSE
    /\ ev' = Event("paint", None, buttons, 0, None)
    /\ nevents' = nevents + 1
    /\ UNCHANGED <<last_mouse_pos, theta, phi, zoom, hovered_face, frustum,
                   buttons>>

Paint ==
    /\ nevents < MaxEvents
    /\ frame' = Some(Render(theta, phi, zoom, pan_offset, hovered_face))
    /\ update_pending' = FALSE
    /\ ev' = Event("paint", None, buttons, 0, None)
    /\ nevents' = nevents + 1
    /\ UNCHANGED <<last_mouse_pos, theta, phi, zoom, pan_offset, hovered_face,
                   frustum, buttons>>

Next ==
    \/ \E b \in Buttons, p \in Pos : MousePress(b, p)
    \/ \E p \in Pos : MouseMove(p)
    \/ \E b \in Buttons, p \in Pos : MouseRelease(b, p)
    \/ \E d \in WheelDeltas : Wheel(d)
    \/ \E w \in Widths, h \in Heights : Resize(w, h)
    \/ Paint

Spec == Init /\ [][Next]_vars

(***************************************************************************)
(* Properties.  Angles are in half degrees and zoom in hundredths, so      *)
(* [1, 179] degrees is 2..358 and [2, 20] is 200..2000.                    *)
(***************************************************************************)

\* C1: in every reachable state phi lies in [1, 179] degrees.
C1_PhiInRange == phi >= 2 /\ phi <= 358

\* a primary-button drag has driven phi into the lower limit
C1_Witness == ev.type = "move" /\ ev.buttons = {"Left"} /\ phi = 2

\* C2: in every reachable state the camera distance lies in [2, 20].
C2_ZoomInRange == zoom >= 200 /\ zoom <= 2000

\* a scroll of +10000 has driven the distance into the lower limit
C2_Witness == ev.type = "wheel" /\ ev.delta = 10000 /\ zoom = 200

\* C3: a drag to q with only the primary button held, from an anchor p set
\* by beginDrag (for any p, the origin included), sets theta to
\* theta - 0.5 * (q.x - p.x) and phi to clamp(phi - 0.5 * (q.y - p.y), 1, 179).
C3_DragOrbits ==
    [][ (last_mouse_pos # None /\ ev'.type = "move" /\ ev'.buttons = {"Left"})
        => LET p == Get(last_mouse_pos)
               q == Get(ev'.pos)
               f == phi - (q[2] - p[2])
           IN  /\ theta' = theta - (q[1] - p[1])
               /\ phi' = (IF f < 2 THEN 2 ELSE IF f > 358 THEN 358 ELSE f) ]_vars

\* C4: a pointer-move received while no anchor is set changes neither the
\* camera nor the anchor, whatever the position and the held buttons.
C4_MoveWithoutAnchorIsNoOp ==
    [][ (last_mouse_pos = None /\ ev'.type = "move")
        => (camera' = camera /\ last_mouse_pos' = None) ]_vars

\* a pointer-move was the very first event, before any pointer-down
C4_Witness ==
    /\ ev.type = "move"
    /\ nevents = 1
    /\ last_mouse_pos = None
    /\ camera = <<90, 90, 500, <<0, 0, 0>>>>

\* C5: a pointer-up clears the anchor, the anchor is present only while a
\* button is held, and once cleared it stays absent and drags leave the
\* camera unchanged until the next pointer-down.
C5_ReleaseClearsAnchor ==
    /\ [](last_mouse_pos # None => buttons # {})
    /\ [][ /\ (ev'.type = "release" => last_mouse_pos' = None)
           /\ (last_mouse_pos = None /\ ev'.type # "press"
                 => last_mouse_pos' = None)
           /\ (last_mouse_pos = None /\ ev'.type = "move"
                 => camera' = camera) ]_vars

\* a drag arrives after a pointer-down and a pointer-up, a button still held
C5_Witness ==
    ev.type = "move" /\ ev.buttons = {"Left"} /\ last_mouse_pos = None

\* C6: with an anchor set, two consecutive primary-button drags (to b, then
\* to c) leave theta and phi equal to those of the single drag to c.
C6_TwoDragsEqualOne ==
    last_mouse_pos # None =>
      \A b \in Pos, c \in Pos :
        LET two == mouseMoveEvent(mouseMoveEvent(self, b, {"Left"}), c, {"Left"})
            one == mouseMoveEvent(self, c, {"Left"})
        IN  two.theta = one.theta /\ two.phi = one.phi

\* C7: after a drag received while an anchor is set the anchor is the drag's
\* position, and unless exactly the primary or exactly the secondary button
\* is held the camera is unchanged.
C7_DragMovesAnchor ==
    [][ (last_mouse_pos # None /\ ev'.type = "move")
        => /\ last_mouse_pos' = ev'.pos
           /\ (ev'.buttons \notin {{"Left"}, {"Right"}} => camera' = camera) ]_vars

\* C8: a scroll of d sets the distance to clamp(distance - 0.01 * d, 2, 20);
\* from 5, a scroll of -100 gives 6 and a scroll of 10000 gives 2.
C8_ZoomStep ==
    [][ ev'.type = "wheel"
        => LET z == zoom - ev'.delta
           IN  /\ zoom' = (IF z < 200 THEN 200 ELSE IF z > 2000 THEN 2000 ELSE z)
               /\ (zoom = 500 /\ ev'.delta = -100 => zoom' = 600)
               /\ (zoom = 500 /\ ev'.delta = 10000 => zoom' = 200) ]_vars

\* the scroll of -100 has taken the distance from 5 to 6
C8_Witness == ev.type = "wheel" /\ ev.delta = -100 /\ zoom = 600 /\ nevents = 1

\* C9: resize(w, h) sets the frustum's horizontal half-extent to 1.0 when
\* h = 0 and to w / h otherwise, and leaves the camera and anchor unchanged.
C9_ResizeAspect ==
    [][ ev'.type = "resize"
        => LET w == Get(ev'.size)[1]
               h == Get(ev'.size)[2]
           IN  /\ frustum' # None
               /\ (h = 0 => Get(frustum').right = 1000)
               /\ (h # 0 => Get(frustum').right * h <= w * 1000
                            /\ w * 1000 < (Get(frustum').right + 1) * h)
               /\ Get(frustum').top = 1000
               /\ camera' = camera
               /\ last_mouse_pos' = last_mouse_pos ]_vars

\* a resize to zero height and non-zero width has set the aspect ratio 1.0
C9_Witness ==
    ev.type = "resize" /\ ev.size = Some(<<800, 0>>) /\ Get(frustum).right = 1000

\* C10: every event that changes the camera leaves a redraw requested, a
\* rendered frame that differs from the current camera's has a redraw
\* pending, and a render pass uses the camera values current at that time.
C10_RedrawRequested ==
    /\ [](frame # None
            /\ Get(frame) # Render(theta, phi, zoom, pan_offset, hovered_face)
          => update_pending)
    /\ [][ /\ (camera' # camera => update_pending')
           /\ (ev'.type = "paint"
                 => frame' = Some(Render(theta, phi, zoom, pan_offset,
                                         hovered_face))) ]_vars

\* a frame was rendered, the camera then zoomed, and the redraw is pending
C10_Witness ==
    /\ ev.type = "wheel"
    /\ frame # None
    /\ Get(frame) # Render(theta, phi, zoom, pan_offset, hovered_face)
    /\ update_pending

\* C11: a render pass changes no camera state: theta, phi, distance,
\* panOffset and the anchor are the same after paintGL as before it.
C11_PaintKeepsCamera ==
    [][ ev'.type = "paint"
        => (camera' = camera /\ last_mouse_pos' = last_mouse_pos) ]_vars

\* a frame was rendered in the middle of a drag that had moved the camera
C11_Witness ==
    /\ ev.type = "paint"
    /\ last_mouse_pos # None
    /\ camera # <<90, 90, 500, <<0, 0, 0>>>>

\* C12: the hovered-face selector never holds a face index, so every
\* rendered frame has all six faces at alpha 1.0 and none at 0.5.
C12_NoHoveredFace ==
    /\ hovered_face = None
    /\ (frame # None => \A i \in 0..5 : Get(frame).alpha[i] = 100)

\* a frame was rendered after input events had been handled
C12_Witness ==
    /\ frame # None
    /\ ev.type = "paint"
    /\ nevents >= 3
    /\ \A i \in 0..5 : Get(frame).alpha[i] = 100

\* C13: every grid line endpoint of a rendered frame has Z coordinate 0 (Z
\* being the up axis handed to look-at) and integer X and Y in [-10, 10].
C13_GridInGroundPlane ==
    frame # None =>
      \A k \in DOMAIN Get(frame).grid :
        LET v == Get(frame).grid[k]
        IN  /\ Get(frame).up = <<0, 0, 1>>
            /\ v[3] = 0
            /\ v[1] \in -10..10
            /\ v[2] \in -10..10

\* C14: the pan path is path-dependent: from every reachable state with the
\* secondary button held and an effective anchor a there are secondary-button drags d1 = b - a and
\* d2 = c - m, with an orbit from b to m between them (b and m not the
\* origin, so that every drag is processed), whose panOffset differs from
\* that of the one secondary-button drag by d1 + d2.
C14_PanPathDependent ==
    (buttons = {"Right"} /\ Truthy(last_mouse_pos)) =>
      \E b \in Pos \ {<<0, 0>>}, m \in Pos \ {<<0, 0>>}, c \in Pos :
        LET a   == Get(last_mouse_pos)
            s1  == mouseMoveEvent(self, b, {"Right"})
            s2  == mouseMoveEvent(s1, m, {"Left"})
            s3  == mouseMoveEvent(s2, c, {"Right"})
            one == mouseMoveEvent(self, << a[1] + (b[1] - a[1]) + (c[1] - m[1]),
                                           a[2] + (b[2] - a[2]) + (c[2] - m[2]) >>,
                                  {"Right"})
        IN  s3.pan_offset # one.pan_offset

\* a secondary-button drag has panned with a basis taken from angles that an
\* earlier orbit had changed
C14_Witness ==
    /\ ev.type = "move"
    /\ ev.buttons = {"Right"}
    /\ theta # 90
    /\ pan_offset # <<0, 0, 0>>

\* C15: in a secondary-button drag the forward vector of the pan basis is
\* the component-wise negation of the unit eye offset
\* (sin(phi)cos(theta), sin(phi)sin(theta), cos(phi)) of the renderer.
C15_ForwardNegatesEye ==
    (ev.type = "move" /\ ev.buttons = {"Right"} /\ last_mouse_pos = ev.pos)
      => Forward(theta, phi) = VecScale(EyeDir(theta, phi), -1)

\* C16: the six index lists partition the 24 vertex indices, the four
\* vertices of each drawn face share one coordinate fixed at +1 or -1, and
\* cyclically consecutive vertices differ in exactly one coordinate.
C16_FacesAreProperQuads ==
    frame # None =>
      /\ \A n \in 0..23 :
           Cardinality({ ik \in (1..6) \X (1..4) : faces[ik[1]][ik[2]] = n }) = 1
      /\ \A i \in 0..5 :
           LET q == Get(frame).cube[i].quad
           IN  /\ \E c \in 1..3 : \E v \in {-1, 1} : \A k \in 1..4 : q[k][c] = v
               /\ \A k \in 1..4 :
                    Cardinality({ c \in 1..3 : q[k][c] # q[(k % 4) + 1][c] }) = 1

\* C17: a primary-button drag leaves distance and panOffset unchanged, a
\* secondary-button drag leaves theta, phi and distance unchanged, a scroll
\* leaves theta, phi, panOffset and the anchor unchanged, and pointer-down
\* and pointer-up change nothing of the widget but the anchor.
C17_ControlsIndependent ==
    [][ /\ (ev'.type = "move" /\ ev'.buttons = {"Left"}
              => zoom' = zoom /\ pan_offset' = pan_offset)
        /\ (ev'.type = "move" /\ ev'.buttons = {"Right"}
              => theta' = theta /\ phi' = phi /\ zoom' = zoom)
        /\ (ev'.type = "wheel"
              => /\ theta' = theta /\ phi' = phi
                 /\ pan_offset' = pan_offset
                 /\ last_mouse_pos' = last_mouse_pos)
        /\ (ev'.type \in {"press", "release"}
              => /\ camera' = camera
                 /\ hovered_face' = hovered_face
                 /\ frustum' = frustum
                 /\ frame' = frame
                 /\ update_pending' = update_pending) ]_vars

\* a scroll and then a secondary-button drag: zoom and pan moved, angles not
C17_Witness ==
    /\ ev.type = "move"
    /\ ev.buttons = {"Right"}
    /\ pan_offset # <<0, 0, 0>>
    /\ zoom # 500
    /\ theta = 90
    /\ phi = 90

====
